---- MODULE Spec2Model ----
(***************************************************************************)
(* Model of src/handler.py: the hand-gesture to MIDI Control Change loop.   *)
(*                                                                         *)
(* Time is counted in ticks of 1/300 s, so that send_interval (1/30 s) is  *)
(* 10 ticks, 0.02 s is 6 ticks and 0.05 s is 15 ticks.  Pixel distances    *)
(* are integers: the fingertip positions the detector reports lie on a     *)
(* vertical line, so every Euclidean distance is a whole number and        *)
(* math.sqrt is exact on it.  On integer arguments int(norm * 127) equals  *)
(* the truncated integer quotient used in normalize_to_cc below.           *)
(***************************************************************************)
EXTENDS Integers, Sequences, FiniteSets, TLC

VARIABLES
    pc,             \* position of run(): see the actions below
    exc,            \* TRUE when an exception is propagating out of run()
    midi_out,       \* "none" | "open"                      (handler.py:136)
    cap,            \* "none" | "open" | "released"         (handler.py:142,240)
    hands,          \* "none" | "open" | "closed"           (handler.py:144,242)
    dist_range,     \* <<MIN_DIST_PX, MAX_DIST_PX>>, the defaults of normalize_to_cc
    last_send,      \* handler.py:152,227
    ret,            \* handler.py:157
    coords,         \* handler.py:170
    now,            \* handler.py:202
    send_midi_now,  \* handler.py:203
    sent,           \* the messages handed to midi_out.send_message in this iteration
    detected,       \* history: the sides the detector reported in the current frame
    frames,         \* history: frames processed so far, counted up to MaxFrames
    seen,           \* history: the sides detected in any earlier frame
    last_msg_time,  \* history: timestamp of the latest earlier frame that sent a
                    \* message, -1 if none or if the clock went back since
    arg,            \* normalize_to_cc called on its own: <<dist_px, min_d, max_d>>
    out             \* its return value, <<v>>, or <<>> while there is none

vars == <<pc, exc, midi_out, cap, hands, dist_range, last_send, ret, coords, now,
          send_midi_now, sent, detected, frames, seen, last_msg_time, arg, out>>

----------------------------------------------------------------------------
(* Program constants *)

MIDI_CHANNEL == 0
CC_LEFT_HAND == 20
CC_RIGHT_HAND == 21
CC_THUMB_TO_THUMB == 22
CC_INDEX_TO_INDEX == 23
MIN_DIST_PX == 20
MAX_DIST_PX == 400
send_interval == 10

(* Bounds of the model *)

MaxPose == 1        \* a hand is in one of the poses 0..MaxPose, see Poses
MaxClock == 4       \* Spec: the clock reads 0, 10, ... 10*MaxClock ticks
MaxTime == 22       \* SpecClock: the clock reads any tick in 0..MaxTime
MaxFrames == 2      \* frames is counted up to MaxFrames
MaxPx == 6          \* SpecNorm: ranges and distances over 0..MaxPx (+ defaults)

----------------------------------------------------------------------------
(* Helpers *)

None == <<>>

Max(a, b) == IF a >= b THEN a ELSE b
Min(a, b) == IF a <= b THEN a ELSE b
Abs(a) == IF a >= 0 THEN a ELSE -a

\* int(a / b) for b # 0: the quotient truncated toward zero.
TruncDiv(a, b) ==
    LET q == Abs(a) \div Abs(b)
    IN  IF (a >= 0) = (b > 0) THEN q ELSE -q

RECURSIVE SqrtIn(_, _, _)
SqrtIn(n, lo, hi) ==
    IF lo >= hi THEN lo
    ELSE LET mid == (lo + hi + 1) \div 2
         IN  IF mid * mid <= n THEN SqrtIn(n, mid, hi) ELSE SqrtIn(n, lo, mid - 1)

\* math.sqrt of dx^2 + dy^2, which lies between max(|dx|, |dy|) and |dx| + |dy|.
Hypot(dx, dy) ==
    SqrtIn(dx * dx + dy * dy, Max(Abs(dx), Abs(dy)), Abs(dx) + Abs(dy))

----------------------------------------------------------------------------
(* normalize_to_cc, send_cc, draw_line_info *)

\* A plausible slip: the clamp of line 51 left out.
normalize_to_cc_unclamped(dist_px, min_d, max_d) ==
    TruncDiv((dist_px - min_d) * 127, max_d - min_d)

\* A plausible slip: scaled to 128 steps instead of 127.
normalize_to_cc_128(dist_px, min_d, max_d) ==
    LET d == Max(min_d, Min(max_d, dist_px))
    IN  TruncDiv((d - min_d) * 128, max_d - min_d)

\* Defined for max_d # min_d; the call raises ZeroDivisionError otherwise.
normalize_to_cc(dist_px, min_d, max_d) ==
    LET d == Max(min_d, Min(max_d, dist_px))
    IN  TruncDiv((d - min_d) * 127, max_d - min_d)

normalize_raises(min_d, max_d) == max_d = min_d

\* The message send_cc hands to midi_out.send_message.
send_cc(cc_number, value) ==
    << 176 + (MIDI_CHANNEL % 16), cc_number % 128, Max(0, Min(127, value)) >>

\* math.sqrt((x2 - x1) ** 2 + (y2 - y1) ** 2)
Dist(p1, p2) == Hypot(p2[1] - p1[1], p2[2] - p1[2])

\* A plausible slip: the message is sent whether or not a MIDI port was passed.
draw_line_info_always_sends(p1, p2, midi, cc_number) ==
    IF p1 = None \/ p2 = None
    THEN << >>
    ELSE << send_cc(cc_number, normalize_to_cc(Dist(p1, p2), dist_range[1], dist_range[2])) >>

\* The messages one call of draw_line_info sends.  midi is TRUE when the call
\* passes midi_out and cc_number.
draw_line_info(p1, p2, midi, cc_number) ==
    IF p1 = None \/ p2 = None
    THEN << >>
    ELSE IF midi
         THEN << send_cc(cc_number, normalize_to_cc(Dist(p1, p2), dist_range[1], dist_range[2])) >>
         ELSE << >>

\* The call raises: both points are there, and the label's normalize_to_cc
\* (line 110) divides by zero.
draw_line_info_raises(p1, p2) ==
    /\ p1 # None
    /\ p2 # None
    /\ normalize_raises(dist_range[1], dist_range[2])

----------------------------------------------------------------------------
(* The per-frame body of run() *)

Sides == {"Left", "Right"}

\* Landmark 4 and landmark 8 in pixels: thumb and index 50 px apart in pose 0,
\* 500 px and more apart in the others.
Poses ==
    { [thumb |-> <<100, 100 + 50 * k>>,
       index |-> <<100, 150 + 550 * k>>] : k \in 0..MaxPose }

\* One detected hand: its handedness label and its fingertips.
Hand ==
    { [label |-> s, thumb |-> p.thumb, index |-> p.index] : s \in Sides, p \in Poses }

\* results.multi_hand_landmarks zipped with results.multi_handedness: 0..2 hands.
HandSeqs == { << >> } \cup { <<h>> : h \in Hand } \cup { <<g, h>> : g \in Hand, h \in Hand }

\* The clock readings of Spec.
Clock == { send_interval * k : k \in 0..MaxClock }

\* coords before the first frame (the name is not bound yet): no point at all.
UnsetCoords ==
    [s \in Sides |-> [thumb |-> None, index |-> None]]

\* A plausible slip: the dictionary of the previous frame is kept.
FreshCoordsStale == coords

\* Lines 170-173.
FreshCoords ==
    [s \in Sides |-> [thumb |-> None, index |-> None]]

\* Lines 176-188: later hands of the same label overwrite earlier ones.
RECURSIVE ExtractCoords(_, _)
ExtractCoords(c, hs) ==
    IF hs = << >> THEN c
    ELSE LET h == Head(hs)
         IN  ExtractCoords(
                 [c EXCEPT ![h.label] = [thumb |-> h.thumb, index |-> h.index]],
                 Tail(hs))

\* The four calls of lines 213-226 (and 230-233), in order.
PAIRS ==
    << [a |-> <<"Left", "thumb">>,  b |-> <<"Left", "index">>,  cc |-> CC_LEFT_HAND],
       [a |-> <<"Right", "thumb">>, b |-> <<"Right", "index">>, cc |-> CC_RIGHT_HAND],
       [a |-> <<"Left", "thumb">>,  b |-> <<"Right", "thumb">>, cc |-> CC_THUMB_TO_THUMB],
       [a |-> <<"Left", "index">>,  b |-> <<"Right", "index">>, cc |-> CC_INDEX_TO_INDEX] >>

PointOf(c, sel) == c[sel[1]][sel[2]]

\* The calls from the i-th on: the messages sent, and whether one of them raised.
RECURSIVE Draws(_, _, _)
Draws(c, midi, i) ==
    IF i > Len(PAIRS) THEN [msgs |-> << >>, raised |-> FALSE]
    ELSE LET p1 == PointOf(c, PAIRS[i].a)
             p2 == PointOf(c, PAIRS[i].b)
         IN  IF draw_line_info_raises(p1, p2)
             THEN [msgs |-> << >>, raised |-> TRUE]
             ELSE LET rest == Draws(c, midi, i + 1)
                  IN  [msgs |-> draw_line_info(p1, p2, midi, PAIRS[i].cc) \o rest.msgs,
                       raised |-> rest.raised]

\* A plausible slip: >= for >.
ShouldEmitInclusive(t, last) == (t - last) >= send_interval

\* Line 203.
ShouldEmit(t, last) == (t - last) > send_interval

\* A plausible slip: line 227 left out.
NextLastSendKept(send, t, last) == last

\* Line 227, reached only on the sending branch.
NextLastSend(send, t, last) == IF send THEN t ELSE last

----------------------------------------------------------------------------
(* run(): start-up, lines 136-153 *)

InitRun(rng) ==
    /\ pc = "find_midi_port"
    /\ exc = FALSE
    /\ midi_out = "none"
    /\ cap = "none"
    /\ hands = "none"
    /\ dist_range = rng
    /\ last_send = 0
    /\ ret = FALSE
    /\ coords = UnsetCoords
    /\ now = 0
    /\ send_midi_now = FALSE
    /\ sent = << >>
    /\ detected = {}
    /\ frames = 0
    /\ seen = {}
    /\ last_msg_time = -1
    /\ arg = << >>
    /\ out = << >>

\* The program as it is: the range of lines 25-26.
Init == InitRun(<<MIN_DIST_PX, MAX_DIST_PX>>)

\* The range "tweaked" (line 24), valid or not.
Ranges ==
    { <<MIN_DIST_PX, MAX_DIST_PX>>, <<MAX_DIST_PX, MAX_DIST_PX>>, <<MAX_DIST_PX, MIN_DIST_PX>> }

InitCfg == \E rng \in Ranges : InitRun(rng)

\* Line 136.
FindMidiPort ==
    /\ pc = "find_midi_port"
    /\ midi_out' = "open"
    /\ pc' = "video_capture"
    /\ UNCHANGED <<exc, cap, hands, dist_range, last_send, ret, coords, now,
                   send_midi_now, sent, detected, frames, seen, last_msg_time, arg, out>>

\* Line 142.  cv2.VideoCapture does not raise when there is no camera: the
\* first read fails instead.
VideoCapture ==
    /\ pc = "video_capture"
    /\ cap' = "open"
    /\ pc' = "hands_init"
    /\ UNCHANGED <<exc, midi_out, hands, dist_range, last_send, ret, coords, now,
                   send_midi_now, sent, detected, frames, seen, last_msg_time, arg, out>>

\* Lines 144-153.  The constructor of the pose model either returns, and run()
\* enters the try block, or raises, and the exception leaves run() (the call is
\* outside the try block).
HandsInit ==
    /\ pc = "hands_init"
    /\ \E ok \in BOOLEAN :
          IF ok
          THEN /\ hands' = "open"
               /\ pc' = "read"
               /\ exc' = FALSE
          ELSE /\ hands' = hands
               /\ pc' = "done"
               /\ exc' = TRUE
    /\ UNCHANGED <<midi_out, cap, dist_range, last_send, ret, coords, now,
                   send_midi_now, sent, detected, frames, seen, last_msg_time, arg, out>>

----------------------------------------------------------------------------
(* run(): the loop, lines 156-238 *)

\* A plausible slip: the test of ret (lines 158-159) left out.
ReadFrameUnchecked ==
    /\ pc = "read"
    /\ \E r \in BOOLEAN :
          /\ ret' = r
          /\ pc' = "process"
    /\ sent' = << >>
    /\ last_msg_time' = IF sent # << >> THEN now ELSE last_msg_time
    /\ UNCHANGED <<exc, midi_out, cap, hands, dist_range, last_send, coords, now,
                   send_midi_now, detected, frames, seen, arg, out>>

\* Lines 157-159: cap.read(), and the break when there is no frame.
ReadFrame ==
    /\ pc = "read"
    /\ \E r \in BOOLEAN :
          /\ ret' = r
          /\ pc' = IF r THEN "process" ELSE "finally"
    /\ sent' = << >>
    /\ last_msg_time' = IF sent # << >> THEN now ELSE last_msg_time
    /\ UNCHANGED <<exc, midi_out, cap, hands, dist_range, last_send, coords, now,
                   send_midi_now, detected, frames, seen, arg, out>>

\* Lines 162-233 on a frame in which the detector reports hs and the clock reads t.
\* c, send and d are each computed once: the dictionary of lines 170-188, the
\* decision of line 203 and the outcome of the four calls of lines 212-233.
ProcessFrame(hs, t) ==
    /\ pc = "process"
    /\ \E c \in {ExtractCoords(FreshCoords, hs)}, send \in {ShouldEmit(t, last_send)} :
       \E d \in {Draws(c, send, 1)} :
           /\ coords' = c
           /\ now' = t
           /\ send_midi_now' = send
           /\ sent' = d.msgs
           /\ last_send' = IF d.raised THEN last_send ELSE NextLastSend(send, t, last_send)
           /\ pc' = IF d.raised THEN "finally" ELSE "show"
           /\ exc' = d.raised
    /\ frames' = Min(frames + 1, MaxFrames)
    /\ detected' = { hs[i].label : i \in DOMAIN hs }
    /\ seen' = seen \cup detected
    /\ last_msg_time' = IF t < now THEN -1 ELSE last_msg_time
    /\ UNCHANGED <<midi_out, cap, hands, dist_range, ret, arg, out>>

\* Lines 162-165: flipping, converting or hands.process raises.
ProcessRaises ==
    /\ pc = "process"
    /\ pc' = "finally"
    /\ exc' = TRUE
    /\ UNCHANGED <<midi_out, cap, hands, dist_range, last_send, ret, coords, now,
                   send_midi_now, sent, detected, frames, seen, last_msg_time, arg, out>>

\* Line 235: cv2.imshow returns, or raises (a build without a window system).
Show ==
    /\ pc = "show"
    /\ \E ok \in BOOLEAN :
          /\ pc' = IF ok THEN "waitkey" ELSE "finally"
          /\ exc' = ~ok
    /\ UNCHANGED <<midi_out, cap, hands, dist_range, last_send, ret, coords, now,
                   send_midi_now, sent, detected, frames, seen, last_msg_time, arg, out>>

\* Lines 237-238.
WaitKey ==
    /\ pc = "waitkey"
    /\ \E q \in BOOLEAN :
          pc' = IF q THEN "finally" ELSE "read"
    /\ UNCHANGED <<exc, midi_out, cap, hands, dist_range, last_send, ret, coords,
                   now, send_midi_now, sent, detected, frames, seen, last_msg_time, arg, out>>

\* Lines 239-242.
Finally ==
    /\ pc = "finally"
    /\ cap' = "released"
    /\ hands' = "closed"
    /\ pc' = "done"
    /\ UNCHANGED <<exc, midi_out, dist_range, last_send, ret, coords, now,
                   send_midi_now, sent, detected, frames, seen, last_msg_time, arg, out>>

Next ==
    \/ FindMidiPort
    \/ VideoCapture
    \/ HandsInit
    \/ ReadFrame
    \/ \E hs \in HandSeqs, t \in Clock : ProcessFrame(hs, t)
    \/ ProcessRaises
    \/ Show
    \/ WaitKey
    \/ Finally

Spec == Init /\ [][Next]_vars

\* The same program with the range of lines 25-26 set to any of Ranges.
SpecCfg == InitCfg /\ [][Next]_vars

\* The same program in front of a scene with at most one, still, left hand,
\* the clock read to the tick.
ClockHands == { << >>, << [label |-> "Left", thumb |-> <<100, 100>>, index |-> <<100, 150>>] >> }

NextClock ==
    \/ FindMidiPort
    \/ VideoCapture
    \/ HandsInit
    \/ ReadFrame
    \/ \E hs \in ClockHands, t \in 0..MaxTime : ProcessFrame(hs, t)
    \/ ProcessRaises
    \/ Show
    \/ WaitKey
    \/ Finally

SpecClock == Init /\ [][NextClock]_vars

----------------------------------------------------------------------------
(* normalize_to_cc called on its own *)

NormPx == (0..MaxPx) \cup {MIN_DIST_PX, MAX_DIST_PX}

NormDists ==
    (0..(MaxPx + 1)) \cup
    { MIN_DIST_PX - 1, MIN_DIST_PX, MIN_DIST_PX + 1, MIN_DIST_PX + 3,
      MAX_DIST_PX - 1, MAX_DIST_PX, MAX_DIST_PX + 1 }

InitNorm ==
    /\ pc = "call"
    /\ arg \in NormDists \X NormPx \X NormPx
    /\ out = << >>
    /\ exc = FALSE
    /\ midi_out = "none"
    /\ cap = "none"
    /\ hands = "none"
    /\ dist_range = <<MIN_DIST_PX, MAX_DIST_PX>>
    /\ last_send = 0
    /\ ret = FALSE
    /\ coords = UnsetCoords
    /\ now = 0
    /\ send_midi_now = FALSE
    /\ sent = << >>
    /\ detected = {}
    /\ frames = 0
    /\ seen = {}
    /\ last_msg_time = -1

\* Lines 45-53 on arg.
Normalize ==
    /\ pc = "call"
    /\ IF normalize_raises(arg[2], arg[3])
       THEN /\ pc' = "raised"
            /\ exc' = TRUE
            /\ out' = out
       ELSE /\ pc' = "returned"
            /\ exc' = FALSE
            /\ out' = << normalize_to_cc(arg[1], arg[2], arg[3]) >>
    /\ UNCHANGED <<midi_out, cap, hands, dist_range, last_send, ret, coords, now,
                   send_midi_now, sent, detected, frames, seen, last_msg_time, arg>>

NextNorm == Normalize

SpecNorm == InitNorm /\ [][NextNorm]_vars

----------------------------------------------------------------------------
(* The properties *)

Running == {"read", "process", "show", "waitkey"}
Terminated == {"finally", "done"}

\* The frame of this iteration has been through lines 202-233.
Emitted == pc \in {"show", "waitkey"}

\* The messages on the wire in this iteration that carry controller cc.
SentFor(cc) == SelectSeq(sent, LAMBDA m : m[2] = cc)

BothPresent(k) ==
    /\ PointOf(coords, PAIRS[k].a) # None
    /\ PointOf(coords, PAIRS[k].b) # None

\* C1: every Control Change message sent in an iteration carries the controller
\* of one of the four pairs, and both endpoints of that pair were reported by the
\* detector in that same frame, whatever earlier frames showed.
C1_OnlyDetectedPairsSend ==
    \A i \in DOMAIN sent :
        \E k \in DOMAIN PAIRS :
            /\ sent[i][2] = PAIRS[k].cc
            /\ {PAIRS[k].a[1], PAIRS[k].b[1]} \subseteq detected

\* C1: an emitting frame that shows the left hand only, after a frame that
\* showed the right hand: it sends the left pair and nothing else.
C1_Witness ==
    /\ pc = "show"
    /\ send_midi_now
    /\ detected = {"Left"}
    /\ "Right" \in seen
    /\ Len(sent) = 1
    /\ sent[1][2] = CC_LEFT_HAND

\* C2: once a frame's emission is complete, each pair has sent exactly one
\* message <<status, its controller, toCC(its distance)>> if the frame's decision
\* is true and both its endpoints are present, and no message otherwise.
C2_AllOrNone ==
    Emitted =>
        \A k \in DOMAIN PAIRS :
            IF send_midi_now /\ BothPresent(k)
            THEN SentFor(PAIRS[k].cc) =
                    << << 176, PAIRS[k].cc,
                          normalize_to_cc(
                              Dist(PointOf(coords, PAIRS[k].a), PointOf(coords, PAIRS[k].b)),
                              MIN_DIST_PX, MAX_DIST_PX) >> >>
            ELSE SentFor(PAIRS[k].cc) = << >>

\* C2: an emitting frame with both hands in view has sent all four messages.
C2_Witness ==
    /\ pc = "show"
    /\ send_midi_now
    /\ \A k \in DOMAIN PAIRS : BothPresent(k)
    /\ Len(sent) = 4

\* C3: the step that processes a frame decides to emit exactly when the clock
\* reading exceeds last_send by more than send_interval, and sets last_send to
\* the reading exactly when it decides to emit; no other step changes last_send.
C3_StrictGate ==
    [][ IF pc = "process" /\ pc' = "show"
        THEN /\ send_midi_now' = (now' - last_send > send_interval)
             /\ last_send' = IF send_midi_now' THEN now' ELSE last_send
        ELSE last_send' = last_send ]_vars

\* C3: a frame taken exactly one interval after the last emission did not emit.
C3_Witness ==
    /\ pc = "show"
    /\ ~send_midi_now
    /\ last_send > 0
    /\ now - last_send = send_interval

\* C4: while the clock does not go back, a frame that sends a message comes more
\* than send_interval after the previous frame that sent one.
C4_MaxFrequency ==
    (Emitted /\ sent # << >> /\ last_msg_time # -1)
        => now - last_msg_time > send_interval

\* C4: a second frame that sends a message.
C4_Witness ==
    /\ pc = "show"
    /\ sent # << >>
    /\ last_msg_time # -1

C6_RangeAndMonotone ==
    (pc = "returned" /\ arg[2] < arg[3]) =>
        /\ out[1] \in 0..127
        /\ \A d2 \in NormDists :
               arg[1] <= d2 => out[1] <= normalize_to_cc(d2, arg[2], arg[3])

\* C6: a distance above max was normalized.
C6_Witness ==
    /\ pc = "returned"
    /\ arg[2] < arg[3]
    /\ arg[1] > arg[3]
    /\ out = <<127>>

\* C7: for min < max, min maps to 0 and max to 127, a distance below min maps to
\* what min maps to and a distance above max to what max maps to.
C7_BoundariesAndClamp ==
    (pc = "returned" /\ arg[2] < arg[3]) =>
        /\ arg[1] = arg[2] => out[1] = 0
        /\ arg[1] = arg[3] => out[1] = 127
        /\ arg[1] < arg[2] => out[1] = normalize_to_cc(arg[2], arg[2], arg[3])
        /\ arg[1] > arg[3] => out[1] = normalize_to_cc(arg[3], arg[2], arg[3])

\* C7: a distance below min was normalized.
C7_Witness ==
    /\ pc = "returned"
    /\ arg[2] < arg[3]
    /\ arg[1] < arg[2]
    /\ out = <<0>>

\* C8: when run() has finished, by whatever path, neither the capture device
\* nor the pose model is still held.
C8_CleanupOnEveryExit ==
    pc = "done" => (cap # "open" /\ hands # "open")

\* C9: with a range min >= max, run() fails before its loop: no frame is ever
\* processed and no message is ever sent.
C9_InvalidRangeFailsFast ==
    dist_range[1] >= dist_range[2] =>
        /\ frames = 0
        /\ sent = << >>

\* C10: a failed read goes to Terminated and leaves the frame state, the gate
\* and the wire alone; the quit check is entered only from the rendering step
\* and rendering only from the frame's processing; Terminated is never left and
\* nothing is processed or sent in it.
C10_LoopStates ==
    [][ /\ pc = "read" =>
              IF ret'
              THEN pc' = "process"
              ELSE /\ pc' = "finally"
                   /\ sent' = << >>
                   /\ UNCHANGED <<coords, detected, now, send_midi_now, last_send, frames>>
        /\ pc' = "waitkey" => pc = "show"
        /\ pc' = "show" => pc = "process"
        /\ pc \in Terminated =>
              /\ pc' \in Terminated
              /\ UNCHANGED <<coords, detected, now, send_midi_now, last_send, frames, sent>> ]_vars

\* C10: run() has finished on a failed read after frames that emitted.
C10_Witness ==
    /\ pc = "done"
    /\ ~ret
    /\ ~exc
    /\ frames >= 1
    /\ last_send > 0

====
